---- MODULE Spec2Model ----
(***************************************************************************)
(* A model of the photo organizer (src/src/app.py): the date resolution of *)
(* DateExtractor, the categorisation and planning of PhotoOrganizer, the   *)
(* mover, and the preview/confirm session of main.                         *)
(*                                                                         *)
(* Text that the program inspects character by character (file names,      *)
(* EXIF tag values) is a sequence of one-character strings.  Text that the *)
(* program only builds and compares (category names) is a string.          *)
(***************************************************************************)
EXTENDS Integers, Sequences, FiniteSets, TLC

VARIABLES
    photo_path,     \* DateExtractor.photo_path: the file under date resolution
    meta_date,      \* what extract_from_heic / extract_from_jpeg returned for it
    name_date,      \* what extract_from_filename returned for it
    date_taken,     \* what get_date returned for it (PhotoFile.date_taken)
    category,       \* what _get_category returned
    sort_type,      \* the "Sort photos by" radio
    create_year_parent, \* the "Create year folder as parent" checkbox
    delete_original,    \* the "Delete original photos" toggle
    target_path,    \* get_directory_paths()[1]: a directory, or None
    source_dir,     \* the files below the source directory, in rglob order
    target_dir,     \* the files below the target directory: path -> content
    session_state,  \* st.session_state
    photos,         \* scan_photos' return value in the last Preview run
    messages,       \* the st.error messages of the last run (file paths)
    clicked,        \* the widget event the last run handled
    confirms        \* completed organisations so far

vars == <<photo_path, meta_date, name_date, date_taken, category, sort_type,
          create_year_parent, delete_original, target_path, source_dir,
          target_dir, session_state, photos, messages, clicked, confirms>>

-----------------------------------------------------------------------------
(* Characters and strings.                                                 *)

DigitChars == <<"0", "1", "2", "3", "4", "5", "6", "7", "8", "9">>

IsDigit(c) == \E k \in 1..10 : DigitChars[k] = c

DigitVal(c) == (CHOOSE k \in 1..10 : DigitChars[k] = c) - 1

Digit(n) == DigitChars[n + 1]

UpperChars == <<"A", "B", "C", "D", "E", "F", "G", "H", "I", "J", "K", "L", "M",
                "N", "O", "P", "Q", "R", "S", "T", "U", "V", "W", "X", "Y", "Z">>

LowerChars == <<"a", "b", "c", "d", "e", "f", "g", "h", "i", "j", "k", "l", "m",
                "n", "o", "p", "q", "r", "s", "t", "u", "v", "w", "x", "y", "z">>

\* str.lower() on one character
LowerChar(c) ==
    IF \E k \in 1..26 : UpperChars[k] = c
    THEN LowerChars[CHOOSE k \in 1..26 : UpperChars[k] = c]
    ELSE c

\* str.lower()
lower(s) == [i \in 1..Len(s) |-> LowerChar(s[i])]

\* str.startswith(prefix)
startswith(s, prefix) ==
    /\ Len(prefix) <= Len(s)
    /\ \A i \in 1..Len(prefix) : s[i] = prefix[i]

\* s[n:]
DropFirst(s, n) == SubSeq(s, n + 1, Len(s))

\* whether s[pos .. pos+n-1] exists and is all digits
DigitsAt(s, pos, n) ==
    /\ pos + n - 1 <= Len(s)
    /\ \A i \in pos..(pos + n - 1) : IsDigit(s[i])

\* the decimal value of the n digits of s from pos
NumAt(s, pos, n) ==
    LET val[i \in 0..n] ==
            IF i = 0 THEN 0 ELSE 10 * val[i - 1] + DigitVal(s[pos + i - 1])
    IN  val[n]

-----------------------------------------------------------------------------
(* datetime.                                                               *)

IsLeap(y) == (y % 4 = 0 /\ y % 100 # 0) \/ y % 400 = 0

DaysInMonth(y, m) ==
    IF m = 2 THEN (IF IsLeap(y) THEN 29 ELSE 28)
    ELSE IF m \in {4, 6, 9, 11} THEN 30 ELSE 31

\* the checks of the datetime constructor
ValidDateTime(v) ==
    /\ v.year >= 1 /\ v.year <= 9999
    /\ v.month >= 1 /\ v.month <= 12
    /\ v.day >= 1 /\ v.day <= DaysInMonth(v.year, v.month)
    /\ v.hour <= 23 /\ v.minute <= 59 /\ v.second <= 59

\* the values strptime starts from for the fields a format does not name
StrptimeDefaults ==
    [year |-> 1900, month |-> 1, day |-> 1, hour |-> 0, minute |-> 0, second |-> 0]

Directives == {"%Y", "%m", "%d", "%H", "%M", "%S"}

FieldOf(d) ==
    CASE d = "%Y" -> "year" [] d = "%m" -> "month" [] d = "%d" -> "day"
      [] d = "%H" -> "hour" [] d = "%M" -> "minute" [] d = "%S" -> "second"
      [] OTHER -> "none"

\* The values the two-digit and the one-digit alternatives of a directive's
\* pattern take: %m is 1[0-2]|0[1-9]|[1-9], %d is 3[01]|[12]\d|0[1-9]|[1-9]| [1-9],
\* %H is 2[0-3]|[0-1]\d|\d, %M is [0-5]\d|\d, %S is 6[0-1]|[0-5]\d|\d.
TwoDigitRange(d) ==
    CASE d = "%m" -> 1..12 [] d = "%d" -> 1..31 [] d = "%H" -> 0..23
      [] d = "%M" -> 0..59 [] d = "%S" -> 0..61

OneDigitRange(d) == IF d \in {"%m", "%d"} THEN 1..9 ELSE 0..9

\* the length of the run of blanks of s from pos
BlanksAt(s, pos) ==
    Cardinality({ n \in 1..(Len(s) - pos + 1) : \A i \in pos..(pos + n - 1) : s[i] = " " })

\* The ways format item `item` matches s at pos, in the order the regular
\* expression tries them, each <<length, value>>: a directive's alternatives,
\* a blank of the format as \s+ (longest run first), any other character as
\* itself whatever its case.
Alternatives(item, s, pos) ==
    IF item = "%Y"
    THEN IF DigitsAt(s, pos, 4) THEN << <<4, NumAt(s, pos, 4)>> >> ELSE <<>>
    ELSE IF item \in Directives
    THEN (IF DigitsAt(s, pos, 2) /\ NumAt(s, pos, 2) \in TwoDigitRange(item)
          THEN << <<2, NumAt(s, pos, 2)>> >> ELSE <<>>)
         \o
         (IF DigitsAt(s, pos, 1) /\ NumAt(s, pos, 1) \in OneDigitRange(item)
          THEN << <<1, NumAt(s, pos, 1)>> >> ELSE <<>>)
         \o
         (IF /\ item = "%d"
             /\ pos + 1 <= Len(s)
             /\ s[pos] = " "
             /\ DigitsAt(s, pos + 1, 1)
             /\ NumAt(s, pos + 1, 1) \in 1..9
          THEN << <<2, NumAt(s, pos + 1, 1)>> >> ELSE <<>>)
    ELSE IF item = " "
    THEN [k \in 1..BlanksAt(s, pos) |-> <<BlanksAt(s, pos) - k + 1, 0>>]
    ELSE IF pos <= Len(s) /\ LowerChar(s[pos]) = LowerChar(item)
    THEN << <<1, 0>> >> ELSE <<>>

NoMatch == [ok |-> FALSE, end |-> 0, fields |-> StrptimeDefaults]

\* Op applied to the value of e, e evaluated once
Once(Op(_), e) == CHOOSE y \in { Op(x) : x \in {e} } : TRUE

\* the smallest element of a set of numbers
First(S) == CHOOSE a \in S : \A b \in S : a <= b

\* The match of item i at pos by alternative alts[k], followed by `rest`, the
\* match of the items after it.
TakeAlternative(item, alt, rest) ==
    IF item \in Directives
    THEN [rest EXCEPT !.fields[FieldOf(item)] = alt[2]]
    ELSE rest

\* The match of the items from item i on, given the alternatives of item i and
\* for each the match of the items after it: the first alternative after which
\* the rest matches (the engine backtracks over the others).
FirstMatching(item, alts, rests) ==
    LET good == { k \in 1..Len(alts) : rests[k].ok }
    IN  IF good = {} THEN NoMatch
        ELSE TakeAlternative(item, alts[First(good)], rests[First(good)])

\* The match of the items from i on at pos, given the alternatives of item i
\* there and the matches `found` of the items after it.
MatchItem(found, item, i, pos, alts) ==
    Once(LAMBDA rests : FirstMatching(item, alts, rests),
         [k \in 1..Len(alts) |-> found[i + 1, pos + alts[k][1]]])

\* The match of the format's regular expression at the start of s.
FormatMatch(fmt, s) ==
    LET found[i \in 1..(Len(fmt) + 1), pos \in 1..(Len(s) + 1)] ==
            IF i = Len(fmt) + 1
            THEN [ok |-> TRUE, end |-> pos, fields |-> StrptimeDefaults]
            ELSE Once(LAMBDA alts : MatchItem(found, fmt[i], i, pos, alts),
                      Alternatives(fmt[i], s, pos))
    IN  found[1, 1]

\* what strptime makes of the match of its format
Converted(chars, found) ==
    IF ~found.ok THEN [kind |-> "ValueError"]
    ELSE IF found.end # Len(chars) + 1
    THEN [kind |-> "ValueError"]   \* unconverted data remains
    ELSE IF ~ValidDateTime(found.fields)
    THEN [kind |-> "ValueError"]
    ELSE [kind |-> "date", dt |-> found.fields]

\* datetime.strptime(value, fmt).  A value is [type, chars]: EXIF values that
\* are not text raise TypeError.
strptime(value, fmt) ==
    IF value.type # "str" THEN [kind |-> "TypeError"]
    ELSE Converted(value.chars, FormatMatch(fmt, value.chars))

None == [kind |-> "none"]

Fault == [kind |-> "fault"]

Text(chars) == [type |-> "str", chars |-> chars]

-----------------------------------------------------------------------------
(* pathlib.                                                                *)

\* the index of the last "." of a name, 0 when it has none
LastDot(name) ==
    IF \E i \in 1..Len(name) : name[i] = "."
    THEN CHOOSE i \in 1..Len(name) :
            name[i] = "." /\ \A j \in (i + 1)..Len(name) : name[j] # "."
    ELSE 0

HasSuffix(name) == LastDot(name) > 1 /\ LastDot(name) < Len(name)

\* Path.suffix
suffix(name) == IF HasSuffix(name) THEN DropFirst(name, LastDot(name) - 1) ELSE <<>>

\* Path.stem
stem(name) == IF HasSuffix(name) THEN SubSeq(name, 1, LastDot(name) - 1) ELSE name

-----------------------------------------------------------------------------
(* DateExtractor.                                                          *)

EXIF_FORMAT == <<"%Y", ":", "%m", ":", "%d", " ", "%H", ":", "%M", ":", "%S">>

\* what the body of the loop over the tags does with each tag in turn: the
\* tag parsed when it is present, None when it is absent
TagDates(exif, order) ==
    [i \in 1..Len(order) |->
        IF order[i] \in DOMAIN exif THEN strptime(exif[order[i]], EXIF_FORMAT)
        ELSE None]

\* the first date of a sequence of results, None when it holds none
FirstDate(results) ==
    LET dates == { i \in 1..Len(results) : results[i].kind = "date" }
    IN  IF dates = {} THEN None ELSE results[First(dates)]

\* the first result of a sequence that is a date or an error; the error
\* raises
FirstDateOrError(results) ==
    LET some == { i \in 1..Len(results) : results[i].kind # "none" }
    IN  IF some = {} THEN None
        ELSE IF results[First(some)].kind = "date" THEN results[First(some)]
        ELSE Fault

\* the loop over the tags with the except clause left out: a tag that does
\* not parse raises
FirstParsing_uncaught(exif, order) == Once(FirstDateOrError, TagDates(exif, order))

\* The loop over the tags: the first tag of `order` that is present and
\* parses; None when there is none.
FirstParsing(exif, order) == Once(FirstDate, TagDates(exif, order))

\* The EXIF tag the exif library exposes under an attribute name.
ExifAttrTag(attr) ==
    CASE attr = "datetime_original"  -> 36867
      [] attr = "datetime"           -> 306
      [] attr = "datetime_digitized" -> 36868

extract_from_heic(p) ==
    IF ~p.readable \/ p.container.state = "corrupt" THEN Fault
    ELSE IF p.container.state = "noexif" \/ DOMAIN p.container.tags = {}
    THEN None
    ELSE FirstParsing(p.container.tags, <<306, 36867, 36868>>)

extract_from_jpeg(p) ==
    IF ~p.readable \/ p.container.state = "corrupt" THEN Fault
    ELSE IF p.container.state = "noexif" THEN None
    ELSE FirstParsing(p.container.tags,
                      <<ExifAttrTag("datetime_original"), ExifAttrTag("datetime"),
                        ExifAttrTag("datetime_digitized")>>)

D8 == <<"\\d", "\\d", "\\d", "\\d", "\\d", "\\d", "\\d", "\\d">>

patterns ==
    << [pattern |-> D8, date_format |-> <<"%Y", "%m", "%d">>],
       [pattern |-> <<"\\d", "\\d", "\\d", "\\d", "-", "\\d", "\\d", "-", "\\d", "\\d">>,
        date_format |-> <<"%Y", "-", "%m", "-", "%d">>],
       [pattern |-> <<"\\d", "\\d", "\\d", "\\d", "_", "\\d", "\\d", "_", "\\d", "\\d">>,
        date_format |-> <<"%Y", "_", "%m", "_", "%d">>],
       [pattern |-> <<"I", "M", "G", "-">> \o D8, date_format |-> <<"%Y", "%m", "%d">>],
       [pattern |-> <<"I", "M", "G", "_">> \o D8, date_format |-> <<"%Y", "%m", "%d">>],
       [pattern |-> <<"W", "A">> \o D8, date_format |-> <<"%Y", "%m", "%d">>],
       [pattern |-> <<"I", "M", "G", "_", "E">> \o D8,
        date_format |-> <<"%Y", "%m", "%d">>] >>

prefixes == << <<"I", "M", "G", "-">>, <<"I", "M", "G", "_">>,
               <<"I", "M", "G", "_", "E">>, <<"W", "A">> >>

MatchesAt(pattern, s, at) ==
    /\ at + Len(pattern) - 1 <= Len(s)
    /\ \A k \in 1..Len(pattern) :
          IF pattern[k] = "\\d" THEN IsDigit(s[at + k - 1])
          ELSE s[at + k - 1] = pattern[k]

\* re.search(pattern, s).group(0): the leftmost match, None when there is none
re_search(pattern, s) ==
    IF \E at \in 1..Len(s) : MatchesAt(pattern, s, at)
    THEN LET at == CHOOSE a \in 1..Len(s) :
                      /\ MatchesAt(pattern, s, a)
                      /\ \A b \in 1..(a - 1) : ~MatchesAt(pattern, s, b)
         IN  [kind |-> "match", group |-> SubSeq(s, at, at + Len(pattern) - 1)]
    ELSE None

\* the loop over the prefixes: each one the string starts with, as the
\* earlier ones have left it, is cut off
StripPrefixes(date_str) ==
    LET cut[i \in 0..Len(prefixes)] ==
            IF i = 0 THEN date_str
            ELSE IF startswith(cut[i - 1], prefixes[i])
            THEN DropFirst(cut[i - 1], Len(prefixes[i]))
            ELSE cut[i - 1]
    IN  cut[Len(prefixes)]

\* the body of the loop over the patterns for a match: the match without its
\* prefixes, parsed
ParseMatch(match, date_format) ==
    IF match.kind = "match"
    THEN strptime(Text(StripPrefixes(match.group)), date_format)
    ELSE None

\* what each pass of the loop over the patterns parses: a date, or nothing
\* (no match, or a match strptime rejects)
PatternDates(filename) ==
    [i \in 1..Len(patterns) |->
        ParseMatch(re_search(patterns[i].pattern, filename), patterns[i].date_format)]

extract_from_filename(p) == Once(FirstDate, PatternDates(stem(p.name)))

\* datetime.fromtimestamp(os.path.getmtime(path))
getmtime(p) == [kind |-> "date", dt |-> p.mtime]

\* the metadata read get_date chooses by the lower-cased suffix
MetadataRead(p) ==
    IF lower(suffix(p.name)) = <<".", "h", "e", "i", "c">>
    THEN extract_from_heic(p)
    ELSE IF lower(suffix(p.name)) \in {<<".", "j", "p", "g">>,
                                       <<".", "j", "p", "e", "g">>}
    THEN extract_from_jpeg(p)
    ELSE None

\* return date or datetime.fromtimestamp(...)
OrMtime(p, date) == IF date.kind = "none" THEN getmtime(p) ELSE date

\* get_date from "if not date" on, given the metadata read; a fault of the
\* read leaves get_date
AfterMetadata(p, date) ==
    IF date.kind = "fault" THEN Fault
    ELSE IF date.kind = "none"
    THEN Once(LAMBDA named : OrMtime(p, named), extract_from_filename(p))
    ELSE date

\* the file name consulted before the metadata
FilenameFirst(p, date, named) ==
    IF date.kind = "fault" THEN Fault
    ELSE IF named.kind = "date" THEN named
    ELSE IF date.kind = "date" THEN date
    ELSE getmtime(p)

get_date_filename_first(p) ==
    Once(LAMBDA date :
             Once(LAMBDA named : FilenameFirst(p, date, named),
                  extract_from_filename(p)),
         MetadataRead(p))

get_date(p) == Once(LAMBDA date : AfterMetadata(p, date), MetadataRead(p))

-----------------------------------------------------------------------------
(* SeasonMapper and PhotoOrganizer._get_category.                          *)

\* strftime("%Y"), strftime("%m"), strftime("%d")
strftime_Y(dt) ==
    Digit(dt.year \div 1000) \o Digit((dt.year \div 100) % 10)
        \o Digit((dt.year \div 10) % 10) \o Digit(dt.year % 10)

strftime_m(dt) == Digit(dt.month \div 10) \o Digit(dt.month % 10)

strftime_d(dt) == Digit(dt.day \div 10) \o Digit(dt.day % 10)

\* get_season with the tests on the month off by one
get_season_shifted(date) ==
    IF date.month \in {1, 2, 3} THEN "Winter"
    ELSE IF date.month \in {4, 5, 6} THEN "Spring"
    ELSE IF date.month \in {7, 8, 9} THEN "Summer"
    ELSE "Fall"

get_season(date) ==
    IF date.month \in {12, 1, 2} THEN "Winter"
    ELSE IF date.month \in {3, 4, 5} THEN "Spring"
    ELSE IF date.month \in {6, 7, 8} THEN "Summer"
    ELSE "Fall"

SortingTypes == {"YEARLY", "MONTHLY", "DAILY", "SEASON"}

category_formats(sort, dt) ==
    CASE sort = "MONTHLY" -> strftime_Y(dt) \o "-" \o strftime_m(dt) \o "_Photos"
      [] sort = "DAILY"   -> strftime_Y(dt) \o "-" \o strftime_m(dt) \o "-"
                                \o strftime_d(dt) \o "_Photos"
      [] sort = "SEASON"  -> strftime_Y(dt) \o "_" \o get_season(dt) \o "_Photos"

_get_category(photo, sort, year_parent) ==
    LET year == strftime_Y(photo.date_taken)
    IN  IF sort = "YEARLY" THEN year \o "_Photos"
        ELSE LET cat == category_formats(sort, photo.date_taken)
             IN  IF year_parent THEN year \o "/" \o cat ELSE cat

PhotoFile(path, dt) == [path |-> path, date_taken |-> dt]

-----------------------------------------------------------------------------
(* PhotoOrganizer: scan_photos, organize_photos, move_photos.              *)

supported_extensions ==
    { <<".", "j", "p", "g">>, <<".", "j", "p", "e", "g">>, <<".", "p", "n", "g">>,
      <<".", "h", "e", "i", "c">> }

PathOf(f) == [dir |-> f.dir, name |-> f.name]

\* st.error(f"Error processing {path}: ...")
ErrorProcessing(path) == [text |-> "Error processing", path |-> path]

\* the test on the suffix without lower()
IsSupported_case_sensitive(name) == suffix(name) \in supported_extensions

IsSupported(name) == lower(suffix(name)) \in supported_extensions

\* the try of scan_photos, given what get_date did: the photo appended, or
\* st.error called
Scanned(acc, file_path, date) ==
    IF date.kind = "fault"
    THEN [acc EXCEPT !.errors = Append(@, ErrorProcessing(PathOf(file_path)))]
    ELSE [acc EXCEPT !.photo_files =
             Append(@, PhotoFile(PathOf(file_path), date.dt))]

\* One pass of the loop of scan_photos over rglob("*"): acc holds the photos
\* appended and the st.error calls made so far.
ScanFile(acc, file_path) ==
    IF startswith(file_path.name, <<".", "_">>) THEN acc
    ELSE IF IsSupported(file_path.name)
    THEN Once(LAMBDA date : Scanned(acc, file_path, date), get_date(file_path))
    ELSE acc

\* scan_photos: the list it returns, and the st.error calls it makes
scan_photos(tree) ==
    LET acc[i \in 0..Len(tree)] ==
            IF i = 0 THEN [photo_files |-> <<>>, errors |-> <<>>]
            ELSE ScanFile(acc[i - 1], tree[i])
    IN  acc[Len(tree)]

\* organized[category] = [photo] in place of the append
AddToCategory_overwrite(organized, cat, photo) ==
    IF \E k \in 1..Len(organized) : organized[k].category = cat
    THEN LET k == CHOOSE j \in 1..Len(organized) : organized[j].category = cat
         IN  [organized EXCEPT ![k].photos = <<photo>>]
    ELSE Append(organized, [category |-> cat, photos |-> <<photo>>])

\* One pass of the loop of organize_photos.  The dict is a sequence of
\* (category, photos) in insertion order.
AddToCategory(organized, cat, photo) ==
    IF \E k \in 1..Len(organized) : organized[k].category = cat
    THEN LET k == CHOOSE j \in 1..Len(organized) : organized[j].category = cat
         IN  [organized EXCEPT ![k].photos = Append(@, photo)]
    ELSE Append(organized, [category |-> cat, photos |-> <<photo>>])

organize_photos(photo_list, sort, year_parent) ==
    LET organized[i \in 0..Len(photo_list)] ==
            IF i = 0 THEN <<>>
            ELSE AddToCategory(organized[i - 1],
                               _get_category(photo_list[i], sort, year_parent),
                               photo_list[i])
    IN  organized[Len(photo_list)]

\* the file of a tree at a path, None when there is none
FileAt(tree, path) ==
    IF \E k \in 1..Len(tree) : PathOf(tree[k]) = path
    THEN [kind |-> "file",
          index |-> CHOOSE k \in 1..Len(tree) : PathOf(tree[k]) = path]
    ELSE None

RemoveAt(tree, k) == SubSeq(tree, 1, k - 1) \o SubSeq(tree, k + 1, Len(tree))

\* Writing a file of the target directory replaces the file at its path.
WriteFile(files, cat, name, content) ==
    { f \in files : ~(f.category = cat /\ f.name = name) }
    \cup { [category |-> cat, name |-> name, content |-> content] }

\* One shutil.move or shutil.copy2 inside its try: fs is the source tree, the
\* target files and the st.error calls made so far.  A file that is gone
\* cannot be moved or copied, and one that cannot be read cannot be copied.
MovePhoto(fs, cat, photo, delete) ==
    LET at == FileAt(fs.source, photo.path)
    IN  IF at.kind = "none"
        THEN [fs EXCEPT !.errors = Append(@, ErrorProcessing(photo.path))]
        ELSE LET f == fs.source[at.index]
             IN  IF delete
                 THEN [fs EXCEPT
                         !.target = WriteFile(@, cat, photo.path.name, f.content),
                         !.source = RemoveAt(@, at.index)]
                 ELSE IF ~f.readable
                 THEN [fs EXCEPT !.errors = Append(@, ErrorProcessing(photo.path))]
                 ELSE [fs EXCEPT
                         !.target = WriteFile(@, cat, photo.path.name, f.content)]

\* the inner loop of move_photos: the photos of one category
MoveCategory(fs, entry, delete) ==
    LET moved[i \in 0..Len(entry.photos)] ==
            IF i = 0 THEN fs
            ELSE MovePhoto(moved[i - 1], entry.category, entry.photos[i], delete)
    IN  moved[Len(entry.photos)]

\* move_photos on the source tree and the target files.  With None for the
\* target directory the first "target_dir / category" raises.
move_photos(organized, target, delete, source, files) ==
    IF target = "None" /\ organized # <<>>
    THEN [raised |-> TRUE, source |-> source, target |-> files, errors |-> <<>>]
    ELSE LET moved[k \in 0..Len(organized)] ==
                 IF k = 0
                 THEN [raised |-> FALSE, source |-> source, target |-> files,
                       errors |-> <<>>]
                 ELSE MoveCategory(moved[k - 1], organized[k], delete)
         IN  moved[Len(organized)]

\* process_organization after the scan: None when it found no photo
Organized(scan, sort, year_parent) ==
    IF scan.photo_files = <<>> THEN [kind |-> "none", scan |-> scan]
    ELSE [kind |-> "plan", scan |-> scan,
          organized |-> organize_photos(scan.photo_files, sort, year_parent)]

\* process_organization: what it returns, with what its scan returned and
\* reported
process_organization(tree, sort, year_parent) ==
    Once(LAMBDA scan : Organized(scan, sort, year_parent), scan_photos(tree))

ProcessStats(total) ==
    [total_photos |-> total, processed_folders |-> 0, processed_files |-> 0,
     skipped_files |-> 0, errors |-> 0]

\* sum(len(photos) for photos in organized.values())
PhotosCount(organized) ==
    LET total[k \in 0..Len(organized)] ==
            IF k = 0 THEN 0 ELSE total[k - 1] + Len(organized[k].photos)
    IN  total[Len(organized)]

-----------------------------------------------------------------------------
(* Values the variables hold while the operation that sets them has not    *)
(* run, and the files the model draws its inputs from.                     *)

Pending == [kind |-> "pending"]

D2(n) == <<Digit(n \div 10), Digit(n % 10)>>

D4(n) == <<Digit(n \div 1000), Digit((n \div 100) % 10)>> \o D2(n % 100)

DateTime(y, m, d, hh, mm, ss) ==
    [year |-> y, month |-> m, day |-> d, hour |-> hh, minute |-> mm, second |-> ss]

\* "2024:03:15 10:30:00", the layout cameras write
ExifText(t) ==
    Text(D4(t.year) \o <<":">> \o D2(t.month) \o <<":">> \o D2(t.day) \o <<" ">>
         \o D2(t.hour) \o <<":">> \o D2(t.minute) \o <<":">> \o D2(t.second))

\* what a tag of a container can hold; "absent" stands for a tag not present
TagValues ==
    { [type |-> "absent"],
      [type |-> "int"],                                    \* not text
      ExifText(DateTime(0, 0, 0, 0, 0, 0)),                \* the blank value
      ExifText(DateTime(2024, 3, 15, 10, 30, 0)),
      Text(<<"2", "0", "2", "1", ":", "7", ":", "4", " ", "9", ":", "0", "5",
             ":", "0", "0">>) }                            \* one-digit fields

TagsOf(original, datetime, digitized) ==
    LET all == (36867 :> original) @@ (306 :> datetime) @@ (36868 :> digitized)
        present == {t \in DOMAIN all : all[t].type # "absent"}
    IN  [t \in present |-> all[t]]

NoExif == [state |-> "noexif", tags |-> <<>>]

Containers ==
    { NoExif, [state |-> "corrupt", tags |-> <<>>] }
    \cup { [state |-> "exif", tags |-> TagsOf(a, b, c)] :
             a \in TagValues, b \in TagValues, c \in TagValues }

OriginalOnly ==
    [state |-> "exif",
     tags |-> TagsOf(ExifText(DateTime(2024, 3, 15, 10, 30, 0)),
                     [type |-> "absent"], [type |-> "absent"])]

\* year, month, day as the program finds them written in names
Compact(d) == D4(d[1]) \o D2(d[2]) \o D2(d[3])

Hyphenated(d) == D4(d[1]) \o <<"-">> \o D2(d[2]) \o <<"-">> \o D2(d[3])

Underscored(d) == D4(d[1]) \o <<"_">> \o D2(d[2]) \o <<"_">> \o D2(d[3])

NameDates == { <<2024, 1, 15>>, <<2024, 2, 30>>, <<2023, 13, 40>> }

NameTokens ==
    { <<>> } \cup { Compact(d) : d \in NameDates }
             \cup { Hyphenated(d) : d \in NameDates }
             \cup { Underscored(d) : d \in NameDates }

NameLeads == { <<>>, <<"1", "2", "3", "4", "5", "6", "7", "8", "_">> }

NamePrefixes == { <<>>, <<"I", "M", "G", "-">>, <<"I", "M", "G", "_">>,
                  <<"I", "M", "G", "_", "E">>, <<"W", "A">> }

NameTails == { <<>>, <<"_", "f", "o", "o">>, <<"_">> \o Compact(<<2023, 1, 1>>) }

Stems ==
    { a \o b \o c \o d :
        a \in NameLeads, b \in NamePrefixes, c \in NameTokens, d \in NameTails }
    \ { <<>> }

PlainStems == { <<"n", "o", "t", "e">>, Compact(<<2023, 1, 1>>) }

Mtime == DateTime(2022, 1, 1, 12, 0, 0)

File(dir, name, readable, container, content) ==
    [dir |-> dir, name |-> name, readable |-> readable, container |-> container,
     mtime |-> Mtime, content |-> content]

MetadataSuffixes ==
    { <<".", "h", "e", "i", "c">>, <<".", "H", "E", "I", "C">>,
      <<".", "j", "p", "g">>, <<".", "J", "p", "e", "g">>, <<".", "p", "n", "g">> }

DateInputs ==
    { File("a", s \o e, TRUE, c, 1) :
        s \in Stems,
        e \in { <<".", "p", "n", "g">>, <<".", "J", "P", "G">> },
        c \in { NoExif, OriginalOnly } }
    \cup
    { File("a", s \o e, TRUE, c, 1) :
        s \in PlainStems, e \in MetadataSuffixes, c \in Containers }
    \cup
    { File("a", s \o e, FALSE, NoExif, 1) :
        s \in PlainStems, e \in MetadataSuffixes }

NoFile == File("", <<>>, TRUE, NoExif, 0)

-----------------------------------------------------------------------------
(* Date resolution of one file: each operation of DateExtractor applied to *)
(* a file drawn from DateInputs.                                           *)

SessionIdle ==
    /\ category = ""
    /\ sort_type = "YEARLY"
    /\ create_year_parent = FALSE
    /\ delete_original = FALSE
    /\ target_path = "None"
    /\ source_dir = <<>>
    /\ target_dir = {}
    /\ session_state = <<>>
    /\ photos = <<>>
    /\ messages = <<>>
    /\ clicked = "none"
    /\ confirms = 0

sessionVars ==
    <<category, sort_type, create_year_parent, delete_original, target_path,
      source_dir, target_dir, session_state, photos, messages, clicked, confirms>>

InitDate ==
    /\ photo_path \in DateInputs
    /\ meta_date = Pending
    /\ name_date = Pending
    /\ date_taken = Pending
    /\ SessionIdle

ExtractMetadata ==
    /\ meta_date = Pending
    /\ meta_date' = MetadataRead(photo_path)
    /\ UNCHANGED <<photo_path, name_date, date_taken, sessionVars>>

ExtractFromFilename ==
    /\ name_date = Pending
    /\ name_date' = extract_from_filename(photo_path)
    /\ UNCHANGED <<photo_path, meta_date, date_taken, sessionVars>>

GetDate ==
    /\ date_taken = Pending
    /\ date_taken' = get_date(photo_path)
    /\ UNCHANGED <<photo_path, meta_date, name_date, sessionVars>>

NextDate == ExtractMetadata \/ ExtractFromFilename \/ GetDate

SpecDate == InitDate /\ [][NextDate]_vars

-----------------------------------------------------------------------------
(* Properties of date resolution (SpecDate).                               *)

MetadataBearing(p) ==
    lower(suffix(p.name)) \in { <<".", "h", "e", "i", "c">>, <<".", "j", "p", "g">>,
                                <<".", "j", "p", "e", "g">> }

Resolved == date_taken # Pending /\ meta_date # Pending /\ name_date # Pending

\* C1: the result of get_date is the metadata date when the metadata read of
\* a .heic/.jpg/.jpeg file yields one, whatever the name and the mtime; else
\* the date of the file name when the name parser yields one, whatever the
\* mtime; and the last-modified time only when both yield nothing.
FallbackChain ==
    (Resolved /\ meta_date.kind # "fault") =>
        /\ (MetadataBearing(photo_path) /\ meta_date.kind = "date")
              => date_taken = meta_date
        /\ (meta_date.kind = "none" /\ name_date.kind = "date")
              => date_taken = name_date
        /\ (meta_date.kind = "none" /\ name_date.kind = "none")
              => date_taken = [kind |-> "date", dt |-> photo_path.mtime]
        /\ ~MetadataBearing(photo_path) => meta_date.kind = "none"

\* metadata 2024:03:15 and a name holding 20230101 resolve to 2024-03-15
MetadataWinsOverFilename ==
    /\ Resolved
    /\ MetadataBearing(photo_path)
    /\ meta_date.kind = "date" /\ meta_date.dt.year = 2024
    /\ name_date.kind = "date" /\ name_date.dt.year = 2023
    /\ date_taken = meta_date

OriginalTagFirst ==
    (meta_date # Pending /\ meta_date # Fault /\ MetadataBearing(photo_path))
        => meta_date = IF photo_path.container.state = "noexif" THEN None
                       ELSE FirstParsing(photo_path.container.tags,
                                         <<36867, 306, 36868>>)

\* C8: the name parser returns the date of the first pattern, in the order
\* of the table, whose leftmost match parses once the pattern's own prefix
\* (IMG-, IMG_, WA, IMG_E) is taken off it.
PatternPrefixLen == <<0, 0, 0, 4, 4, 2, 5>>

OwnPrefixDate(filename, i) ==
    LET match == re_search(patterns[i].pattern, filename)
    IN  IF match.kind = "match"
        THEN strptime(Text(DropFirst(match.group, PatternPrefixLen[i])),
                      patterns[i].date_format)
        ELSE None

FirstPatternDate(filename) ==
    LET parsing == { i \in 1..Len(patterns) : OwnPrefixDate(filename, i).kind = "date" }
    IN  IF parsing = {} THEN None
        ELSE OwnPrefixDate(filename, CHOOSE a \in parsing : \A b \in parsing : a <= b)

EveryPrefixStripped ==
    name_date # Pending => name_date = FirstPatternDate(stem(photo_path.name))

-----------------------------------------------------------------------------
(* Categorisation of one date: _get_category applied to every date of      *)
(* CategoryDates under every sorting type and layout.                      *)

CategoryDates ==
    { DateTime(y, m, d, 0, 0, 0) : y \in {2023, 2024}, m \in 1..12, d \in {1, 5, 28} }

InitCategory ==
    /\ photo_path = NoFile
    /\ meta_date = Pending
    /\ name_date = Pending
    /\ date_taken \in { [kind |-> "date", dt |-> d] : d \in CategoryDates }
    /\ category = ""
    /\ sort_type \in SortingTypes
    /\ create_year_parent \in BOOLEAN
    /\ delete_original = FALSE
    /\ target_path = "None"
    /\ source_dir = <<>>
    /\ target_dir = {}
    /\ session_state = <<>>
    /\ photos = <<>>
    /\ messages = <<>>
    /\ clicked = "none"
    /\ confirms = 0

GetCategory ==
    /\ category = ""
    /\ category' = _get_category(PhotoFile(photo_path, date_taken.dt),
                                 sort_type, create_year_parent)
    /\ UNCHANGED <<photo_path, meta_date, name_date, date_taken, sort_type,
                   create_year_parent, delete_original, target_path, source_dir,
                   target_dir, session_state, photos, messages, clicked, confirms>>

NextCategory == GetCategory

SpecCategory == InitCategory /\ [][NextCategory]_vars

\* The reference: the category the specification gives for a date.
TwoDigits ==
    <<"01", "02", "03", "04", "05", "06", "07", "08", "09", "10", "11", "12",
      "13", "14", "15", "16", "17", "18", "19", "20", "21", "22", "23", "24",
      "25", "26", "27", "28", "29", "30", "31">>

FourDigits(y) == CASE y = 2023 -> "2023" [] y = 2024 -> "2024"

seasonOf ==
    <<"Winter", "Winter", "Spring", "Spring", "Spring", "Summer", "Summer",
      "Summer", "Fall", "Fall", "Fall", "Winter">>

baseCategory(d, granularity) ==
    CASE granularity = "YEARLY"  -> FourDigits(d.year) \o "_Photos"
      [] granularity = "MONTHLY" ->
            FourDigits(d.year) \o "-" \o TwoDigits[d.month] \o "_Photos"
      [] granularity = "DAILY"   ->
            FourDigits(d.year) \o "-" \o TwoDigits[d.month] \o "-"
                \o TwoDigits[d.day] \o "_Photos"
      [] granularity = "SEASON"  ->
            FourDigits(d.year) \o "_" \o seasonOf[d.month] \o "_Photos"

categoryFor(d, granularity, yearAsParent) ==
    IF granularity # "YEARLY" /\ yearAsParent
    THEN FourDigits(d.year) \o "/" \o baseCategory(d, granularity)
    ELSE baseCategory(d, granularity)

\* C3: _get_category returns the category of the reference for every date,
\* granularity and layout: "{year}_Photos" whatever the layout for Yearly,
\* "{year}-{month}_Photos", "{year}-{month}-{day}_Photos" and
\* "{year}_{season}_Photos" for the others, below "{year}/" exactly when the
\* year is asked for as the parent.
CategoryMatchesReference ==
    category # "" => category = categoryFor(date_taken.dt, sort_type, create_year_parent)

\* 2024-03-05, Monthly, year as parent: "2024/2024-03_Photos"
MonthlyBelowYear ==
    /\ date_taken.dt.year = 2024 /\ date_taken.dt.month = 3 /\ date_taken.dt.day = 5
    /\ sort_type = "MONTHLY" /\ create_year_parent
    /\ category = "2024/2024-03_Photos"

-----------------------------------------------------------------------------
(* The session of main: a source tree drawn from the catalogue, the        *)
(* settings widgets, and the Preview, Confirm Organization and Cancel      *)
(* buttons.  The target directory lies outside the source tree.            *)

MaxFiles == 3

MaxConfirms == 1

Exif(original) ==
    [state |-> "exif",
     tags |-> TagsOf(ExifText(original), [type |-> "absent"], [type |-> "absent"])]

Catalogue ==
    << File("a", <<"I", "M", "G", ".", "p", "n", "g">>, TRUE, NoExif, 1),
       File("b", <<"I", "M", "G", ".", "p", "n", "g">>, TRUE, NoExif, 2),
       File("a", <<".", "_", "t", "h", "u", "m", "b", ".", "j", "p", "g">>,
            TRUE, NoExif, 3),
       File("a", <<"n", "o", "t", "e", ".", "g", "i", "f">>, TRUE, NoExif, 4),
       File("a", <<"P", ".", "J", "P", "G">>, TRUE,
            Exif(DateTime(2024, 3, 15, 10, 30, 0)), 5),
       File("a", <<"b", "a", "d", ".", "h", "e", "i", "c">>, TRUE,
            [state |-> "corrupt", tags |-> <<>>], 6),
       File("b", <<"l", "o", "c", "k", "e", "d", ".", "p", "n", "g">>,
            FALSE, NoExif, 7) >>

\* the files of the catalogue at the indices of `chosen`, in catalogue order
Pick(chosen) ==
    LET picked[i \in 0..Len(Catalogue)] ==
            IF i = 0 THEN <<>>
            ELSE IF i \in chosen THEN Append(picked[i - 1], Catalogue[i])
            ELSE picked[i - 1]
    IN  picked[Len(Catalogue)]

Trees ==
    { Pick(chosen) :
        chosen \in { c \in SUBSET (1..Len(Catalogue)) : Cardinality(c) <= MaxFiles } }

\* the sorting types the session selects among
SortChoices == {"YEARLY", "MONTHLY"}

FailedToOrganize == [text |-> "Failed to organize photos"]

NoSession ==
    [preview_shown |-> FALSE, organized_photos |-> <<>>, stats |-> None,
     organization_done |-> FALSE]

Init ==
    /\ photo_path = NoFile
    /\ meta_date = Pending
    /\ name_date = Pending
    /\ date_taken = Pending
    /\ category = ""
    /\ sort_type = "YEARLY"
    /\ create_year_parent = FALSE
    /\ delete_original = FALSE
    /\ target_path \in {"None", "target"}
    /\ source_dir \in Trees
    /\ target_dir = {}
    /\ session_state = NoSession
    /\ photos = <<>>
    /\ messages = <<>>
    /\ clicked = "none"
    /\ confirms = 0

dateVars == <<photo_path, meta_date, name_date, date_taken, category>>

\* the handler of "Preview organized photos" after process_organization
PreviewRun(result) ==
    /\ clicked' = "preview"
    /\ photos' = result.scan.photo_files
    /\ messages' = result.scan.errors
    /\ session_state' =
          IF result.kind = "plan"
          THEN [session_state EXCEPT
                  !.organized_photos = result.organized,
                  !.preview_shown = TRUE,
                  !.stats = ProcessStats(PhotosCount(result.organized))]
          ELSE session_state
    /\ UNCHANGED <<dateVars, sort_type, create_year_parent, delete_original,
                   target_path, source_dir, target_dir, confirms>>

\* the "Preview organized photos" button
Preview ==
    \E result \in {process_organization(source_dir, sort_type, create_year_parent)} :
        PreviewRun(result)

\* the handler of "Confirm Organization" after move_photos, with the
\* assignments to the session state left out
ConfirmRun_keeps_preview(moved) ==
    /\ moved.raised \/ confirms < MaxConfirms
    /\ clicked' = "confirm"
    /\ source_dir' = moved.source
    /\ target_dir' = moved.target
    /\ messages' = IF moved.raised THEN <<FailedToOrganize>> ELSE moved.errors
    /\ session_state' = session_state
    /\ confirms' = IF moved.raised THEN confirms ELSE confirms + 1
    /\ photos' = <<>>
    /\ UNCHANGED <<dateVars, sort_type, create_year_parent, delete_original,
                   target_path>>

\* the handler of "Confirm Organization" after move_photos: the except
\* clause when it raised, the assignments to the session state when not
ConfirmRun(moved) ==
    /\ moved.raised \/ confirms < MaxConfirms
    /\ clicked' = "confirm"
    /\ source_dir' = moved.source
    /\ target_dir' = moved.target
    /\ messages' = IF moved.raised THEN <<FailedToOrganize>> ELSE moved.errors
    /\ session_state' =
          IF moved.raised THEN session_state
          ELSE [session_state EXCEPT !.preview_shown = FALSE,
                                     !.organization_done = TRUE]
    /\ confirms' = IF moved.raised THEN confirms ELSE confirms + 1
    /\ photos' = <<>>
    /\ UNCHANGED <<dateVars, sort_type, create_year_parent, delete_original,
                   target_path>>

\* the "Confirm Organization" button, drawn while preview_shown
Confirm ==
    /\ session_state.preview_shown
    /\ \E moved \in {move_photos(session_state.organized_photos, target_path,
                                  delete_original, source_dir, target_dir)} :
           ConfirmRun(moved)

\* the "Cancel" button, drawn while preview_shown
Cancel ==
    /\ session_state.preview_shown
    /\ clicked' = "cancel"
    /\ messages' = <<>>
    /\ photos' = <<>>
    /\ session_state' = [session_state EXCEPT !.preview_shown = FALSE]
    /\ UNCHANGED <<dateVars, sort_type, create_year_parent, delete_original,
                   target_path, source_dir, target_dir, confirms>>

\* the "Sort photos by" radio; the year-parent checkbox is not drawn, and
\* create_year_parent is False, under By Year
SelectSortType(selected) ==
    /\ selected # sort_type
    /\ sort_type' = selected
    /\ create_year_parent' = IF selected = "YEARLY" THEN FALSE ELSE create_year_parent
    /\ clicked' = "none"
    /\ messages' = <<>>
    /\ photos' = <<>>
    /\ UNCHANGED <<dateVars, delete_original, target_path, source_dir, target_dir,
                   session_state, confirms>>

\* the "Create year folder as parent" checkbox
ToggleYearParent ==
    /\ sort_type # "YEARLY"
    /\ create_year_parent' = ~create_year_parent
    /\ clicked' = "none"
    /\ messages' = <<>>
    /\ photos' = <<>>
    /\ UNCHANGED <<dateVars, sort_type, delete_original, target_path, source_dir,
                   target_dir, session_state, confirms>>

\* the "Delete original photos after organizing" toggle
ToggleDeleteOriginal ==
    /\ delete_original' = ~delete_original
    /\ clicked' = "none"
    /\ messages' = <<>>
    /\ photos' = <<>>
    /\ UNCHANGED <<dateVars, sort_type, create_year_parent, target_path, source_dir,
                   target_dir, session_state, confirms>>

\* the target directory inputs of get_directory_paths
SetTargetDirectory(path) ==
    /\ path # target_path
    /\ target_path' = path
    /\ clicked' = "none"
    /\ messages' = <<>>
    /\ photos' = <<>>
    /\ UNCHANGED <<dateVars, sort_type, create_year_parent, delete_original,
                   source_dir, target_dir, session_state, confirms>>

Next ==
    \/ Preview
    \/ Confirm
    \/ Cancel
    \/ \E selected \in SortChoices : SelectSortType(selected)
    \/ ToggleYearParent
    \/ ToggleDeleteOriginal
    \/ \E path \in {"None", "target"} : SetTargetDirectory(path)

Spec == Init /\ [][Next]_vars

-----------------------------------------------------------------------------
(* Properties of the session (Spec).                                       *)

\* a file scan_photos keeps: not hidden, suffix in the supported set in any
\* letter case
Eligible(f) ==
    /\ ~(Len(f.name) >= 2 /\ f.name[1] = "." /\ f.name[2] = "_")
    /\ lower(suffix(f.name)) \in { <<".", "j", "p", "g">>, <<".", "j", "p", "e", "g">>,
                                   <<".", "p", "n", "g">>, <<".", "h", "e", "i", "c">> }

Files(tree) == { tree[k] : k \in 1..Len(tree) }

\* the places (category index, position) of a path in a plan
Places(plan, path) ==
    { <<k, j>> \in (1..Len(plan)) \X (1..MaxFiles + 1) :
        j <= Len(plan[k].photos) /\ plan[k].photos[j].path = path }

PlannedPaths(plan) ==
    { plan[k].photos[j].path :
        <<k, j>> \in { <<k, j>> \in (1..Len(plan)) \X (1..MaxFiles + 1) :
                         j <= Len(plan[k].photos) } }

ScannedPaths == { photos[k].path : k \in 1..Len(photos) }

ReportedPaths ==
    { messages[k].path :
        k \in { j \in 1..Len(messages) : messages[j].text = "Error processing" } }

\* a Preview has just run and stored its plan
Previewed == clicked = "preview" /\ photos # <<>>

\* C4: after a scan without errors that found photos, the stored plan holds
\* every supported, non-hidden file of the source tree at exactly one place,
\* the list lengths sum to the number of those files, no list is empty and no
\* category occurs twice.
PartitionComplete ==
    (Previewed /\ messages = <<>>) =>
        LET plan == session_state.organized_photos
            kept == { f \in Files(source_dir) : Eligible(f) }
        IN  /\ \A f \in kept : Cardinality(Places(plan, PathOf(f))) = 1
            /\ PlannedPaths(plan) = { PathOf(f) : f \in kept }
            /\ PhotosCount(plan) = Cardinality(kept)
            /\ \A k \in 1..Len(plan) : plan[k].photos # <<>>
            /\ \A k, j \in 1..Len(plan) :
                  plan[k].category = plan[j].category => k = j

\* C4 witness: an error-free Preview whose plan holds three photos, two of
\* them in one category.
ThreePhotosTwoCategories ==
    /\ Previewed /\ messages = <<>>
    /\ Len(photos) = 3
    /\ Len(session_state.organized_photos) = 2

\* C5: after a Preview that stored a plan, the error counter of the stats
\* equals the number of files whose date resolution raised.
ErrorsCounted ==
    Previewed => session_state.stats.errors = Len(messages)

\* C6: after a Preview, no hidden file and no file with an unsupported suffix
\* is in the scanned list, in the stored plan or in an error message, and every
\* other file of the tree went through date resolution: it is in the scanned
\* list or in an error message.
SkipBehaviour ==
    clicked = "preview" =>
        \A f \in Files(source_dir) :
            IF Eligible(f)
            THEN PathOf(f) \in ScannedPaths \cup ReportedPaths
            ELSE /\ PathOf(f) \notin ScannedPaths \cup ReportedPaths
                 /\ photos # <<>> =>
                        PathOf(f) \notin PlannedPaths(session_state.organized_photos)

\* C6 witness: a Preview of a tree with the hidden file, the .gif and the
\* .JPG, which alone is scanned.
UpperCaseScannedOthersSkipped ==
    /\ clicked = "preview"
    /\ { f.content : f \in Files(source_dir) } = {3, 4, 5}
    /\ Len(photos) = 1
    /\ photos[1].path.name = <<"P", ".", "J", "P", "G">>
    /\ messages = <<>>

\* the content of the catalogue's file at a path
ContentAt(path) ==
    Catalogue[CHOOSE k \in 1..Len(Catalogue) : PathOf(Catalogue[k]) = path].content

\* C9: after the first Confirm that reports no error, the target holds as
\* many files as the plan has photos, each planned photo's content is in the
\* target, and none is gone from both the source and the target.
NoPhotoLost ==
    (clicked = "confirm" /\ confirms = 1 /\ messages = <<>>) =>
        LET plan == session_state.organized_photos
        IN  /\ Cardinality(target_dir) = PhotosCount(plan)
            /\ \A path \in PlannedPaths(plan) :
                  \E t \in target_dir : t.content = ContentAt(path)

\* C10: preview_shown implies a stored non-empty plan; the stored plan
\* changes, and preview_shown becomes true, only by a Preview that found
\* photos, which stores what process_organization returns for the source
\* tree and the settings; a Preview that finds no
\* photo leaves preview_shown as it was; the files change only by a Confirm
\* taken while preview_shown; Cancel and a Confirm that completes leave
\* preview_shown false, a Confirm that raises leaves it true.
SessionFlow ==
    /\ session_state.preview_shown => session_state.organized_photos # <<>>
    /\ [][ /\ session_state'.preview_shown
              => /\ session_state'.organized_photos # <<>>
                 /\ PhotosCount(session_state'.organized_photos) > 0
           /\ (\/ session_state'.organized_photos # session_state.organized_photos
               \/ (session_state'.preview_shown /\ ~session_state.preview_shown))
              => /\ clicked' = "preview"
                 /\ photos' # <<>>
                 /\ session_state'.preview_shown
                 /\ process_organization(source_dir, sort_type, create_year_parent)
                       = [kind |-> "plan",
                          scan |-> [photo_files |-> photos', errors |-> messages'],
                          organized |-> session_state'.organized_photos]
           /\ (clicked' = "preview" /\ photos' = <<>>)
              => session_state' = session_state
           /\ (source_dir' # source_dir \/ target_dir' # target_dir)
              => (clicked' = "confirm" /\ session_state.preview_shown)
           /\ clicked' = "confirm"
              => /\ session_state.preview_shown
                 /\ session_state'.organized_photos = session_state.organized_photos
                 /\ session_state'.preview_shown = (messages' = <<FailedToOrganize>>)
           /\ clicked' = "cancel" => ~session_state'.preview_shown
           /\ (clicked' = "none" \/ clicked' = "cancel")
              => session_state'.organized_photos = session_state.organized_photos
         ]_vars

\* C10 witness: a Confirm that raised, with preview_shown still true and the
\* files untouched.
RaisedConfirmKeepsPreview ==
    /\ clicked = "confirm"
    /\ messages = <<FailedToOrganize>>
    /\ session_state.preview_shown
    /\ target_dir = {}

====
